---- MODULE Spec2Model ----
(***************************************************************************)
(* The instance lifecycle controller of the user-provided service broker   *)
(* (userProvidedController, type-dispatching variant) together with the    *)
(* provisioning hooks it dispatches to for the pod-backed service type.    *)
(*                                                                         *)
(* Every lifecycle call runs on its own goroutine.  The calls that have    *)
(* been received and have not returned are the bag flight: a goroutine has *)
(* no identity beyond the call it runs, and two calls in the same state    *)
(* are two copies of one element of the bag.                               *)
(*                                                                         *)
(* A call is split at the points where it can block: the acquisition of    *)
(* c.rwMutex and every request it sends to the Kubernetes API (the         *)
(* provisioner).  What the call computes between two such points is one    *)
(* step; the deferred unlock that runs when the call returns is a step of  *)
(* its own, so that the result of the call can be observed while it still  *)
(* holds the mutex.                                                        *)
(*                                                                         *)
(* The controller calls doDBProvision / doDBDeprovision / doDBBind.  The   *)
(* repository holds several families of such hooks with the same shape:    *)
(* the nginx and heketi hooks of package userbroker and the database hooks *)
(* of controller_pod.go.  The variable hook fixes, per behaviour, the      *)
(* family the controller is built with.                                    *)
(*                                                                         *)
(* getKubeClient panics when rest.InClusterConfig fails and returns an     *)
(* error when kubernetes.NewForConfig fails; every call of it may end in   *)
(* either way.                                                             *)
(*                                                                         *)
(* Instance ids are opaque to the controller, so they are named in the     *)
(* order of their appearance: a request names an id seen before or the     *)
(* next new one.                                                           *)
(***************************************************************************)
EXTENDS Integers, Sequences, FiniteSets, Bags, TLC

NumProcs == 2
NumIds == 2
MaxOps == 3

Ids == 1..NumIds

serviceidUserProvided == "4f6e6cf6-ffdd-425f-a2c7-3c9258ad2468"
serviceidDatabasePod == "database-1"
serviceidOther == "unrecognised-service"
ServiceIDs == {serviceidUserProvided, serviceidDatabasePod, serviceidOther}

Namespaces == {"", "ns1"}
PodIPs == {"", "10.0.0.1"}
HookFamilies == {"nginx", "heketi", "db"}

NilCredential == [null |-> TRUE]
NoResp == [none |-> TRUE]

\* req.Parameters of a create request: nil, or a map with a credentials entry
NoParameters == << >>
Parameters == {NoParameters, "credentials" :> ("user" :> "u1")}

\* the parameters a request for the service type carries: credentials are
\* supplied by the caller for the user-provided type only
ParametersOf(s) == IF s = serviceidUserProvided THEN Parameters ELSE {NoParameters}

VARIABLES
    instanceMap,    \* c.instanceMap: id -> userProvidedServiceInstance
    secrets,        \* secrets in the cluster, as <<namespace, instance id label>>
    pods,           \* pods in the cluster, as <<namespace, instance id label>>
    hook,           \* the hook family behind doDBProvision/doDBDeprovision/doDBBind
    writer,         \* the number of goroutines holding c.rwMutex exclusively
    readers,        \* the number of goroutines holding c.rwMutex shared
    flight,         \* the calls in flight, each with its position and locals
    started,        \* the number of calls received so far
    seen            \* the number of distinct ids requested so far

vars == <<instanceMap, secrets, pods, hook, writer, readers, flight, started, seen>>

cluster == <<secrets, pods>>
rwMutex == <<writer, readers>>

----------------------------------------------------------------------------
(* Values *)

PlaceholderCredential ==
    ("special-key-1" :> "special-value-1") @@ ("special-key-2" :> "special-value-2")

ContainerPort(h) ==
    CASE h = "nginx" -> 80
      [] h = "heketi" -> 8080
      [] OTHER -> 27017

DBCredential(ip, port) ==
    ("mongoInstanceIp" :> ip) @@ ("mongoInstancePort" :> port)

\* newInstance := &userProvidedServiceInstance{Id, ServiceID, Namespace}
NewInstance(a) ==
    [Id |-> a.id, ServiceID |-> a.svc, Namespace |-> a.ns, Credential |-> NilCredential]

\* json.Marshal of a stored instance: the struct's fields under their json tags
Marshal(inst) ==
    [id |-> inst.Id, namespace |-> inst.Namespace, serviceid |-> inst.ServiceID,
     credential |-> inst.Credential]

\* an insert that writes the instance over every entry
MapInsert_OverAll(m, id, inst) ==
    [i \in (DOMAIN m) \cup {id} |-> inst]

\* c.instanceMap[id] = newInstance
MapInsert(m, id, inst) ==
    [i \in (DOMAIN m) \cup {id} |-> IF i = id THEN inst ELSE m[i]]

\* a delete that empties the map
MapDelete_Everything(m, id) == << >>

\* a map delete that deletes nothing
MapDelete_Nothing(m, id) == m

\* delete(c.instanceMap, id)
MapDelete(m, id) ==
    [i \in (DOMAIN m) \ {id} |-> m[i]]

WriteOps == {"Create", "Remove"}
ReadOps == {"Get", "Bind", "UnBind"}

\* getKubeClient: rest.InClusterConfig failing panics, kubernetes.NewForConfig
\* failing is returned as an error
getKubeClient == {"ok", "err", "panic"}

ClientError(k) == IF k = "panic" THEN "panic" ELSE "ErrClient"

----------------------------------------------------------------------------
(* Calls: a call is a record of its method (op), its instance id, the
   service id and namespace it works with once it runs, the parameters of
   the request of a create (params), its position (pc),
   the local errPod of the deprovision hooks, the error and response it
   returns, the requests it has sent to the provisioner (calls, as
   <<request, outcome>>), peer, the outcomes of the other creates of the
   same id that returned while it was outstanding, and prior, the outcome of
   the last remove of the id that returned while it was outstanding
   ("removed", "failed", or "failed_on_secret" when it failed after the
   pods were deleted), "none" again once a create of the id succeeded *)

NewCall(o, i) ==
    [op |-> o, id |-> i, svc |-> "", ns |-> "", params |-> NoParameters,
     pc |-> "wait", errPod |-> FALSE,
     ret |-> "none", resp |-> NoResp, calls |-> << >>, peer |-> {},
     prior |-> "none"]

\* the call has computed its result: position before the deferred unlock
Result(c, e, r) == [c EXCEPT !.pc = "ret", !.ret = e, !.resp = r]

Goto(c, l) == [c EXCEPT !.pc = l]

Log(c, req, o) == [c EXCEPT !.calls = Append(@, <<req, o>>)]

Flight == BagToSet(flight)

Without(c) == flight (-) SetToBag({c})

\* the call c takes a step and becomes d
Becomes(c, d) == flight' = Without(c) (+) SetToBag({d})

----------------------------------------------------------------------------
Init ==
    /\ instanceMap = << >>
    /\ secrets = {}
    /\ pods = {}
    /\ hook \in HookFamilies
    /\ writer = 0
    /\ readers = 0
    /\ flight = EmptyBag
    /\ started = 0
    /\ seen = 0

\* A request arrives: the routing layer calls one of the controller's methods,
\* which calls c.rwMutex.Lock() or c.rwMutex.RLock()
Start ==
    /\ BagCardinality(flight) < NumProcs
    /\ started < MaxOps
    /\ started' = started + 1
    /\ \E o \in WriteOps \cup ReadOps, i \in Ids :
         /\ i <= seen + 1
         /\ seen' = IF i > seen THEN i ELSE seen
         /\ flight' = flight (+) SetToBag({NewCall(o, i)})
    /\ UNCHANGED <<instanceMap, secrets, pods, hook, writer, readers>>

\* a Lock that excludes nobody
CanLock_NoExclusion == TRUE

\* sync.RWMutex: Lock succeeds when nobody holds the mutex
CanLock == writer = 0 /\ readers = 0

\* an RLock that does not wait for the writer
CanRLock_Always == TRUE

\* sync.RWMutex: RLock succeeds when no writer holds the mutex
CanRLock == writer = 0

\* c.rwMutex.Lock() at the head of CreateServiceInstance and RemoveServiceInstance
Lock(c) ==
    /\ c.pc = "wait"
    /\ CanLock
    /\ writer' = writer + 1
    /\ UNCHANGED readers

\* an RLock that takes no hold of the mutex
RLock_NoHold(c) ==
    /\ c.pc = "wait"
    /\ CanRLock
    /\ UNCHANGED <<writer, readers>>

\* c.rwMutex.RLock() at the head of GetServiceInstance, Bind and UnBind
RLock(c) ==
    /\ c.pc = "wait"
    /\ CanRLock
    /\ readers' = readers + 1
    /\ UNCHANGED writer

----------------------------------------------------------------------------
(* CreateServiceInstance and the provision hooks: doNginXProvision,
   doHeketiProvision, provisionDBInstance *)

\* a switch that sends every service type to the hook
Provisions_All(s) == TRUE

\* the switch on the ServiceID in CreateServiceInstance and
\* RemoveServiceInstance: only case serviceidDatabasePod calls the hook
Provisions(s) == s = serviceidDatabasePod

\* a create without the existence check
CreateExists_Never(id) == FALSE

\* _, ok := c.instanceMap[id] in CreateServiceInstance
CreateExists(id) == id \in DOMAIN instanceMap

\* the registry while the hook runs: the create has not written to it
BeforeProvision(m, a) == m

\* c.instanceMap[id] = newInstance; return nil, nil
CreateInsert(c, d) ==
    /\ instanceMap' = MapInsert(instanceMap, d.id, NewInstance(d))
    /\ Becomes(c, Result(d, "ok", NoResp))

\* the head of the hook up to the first request: the namespace check and
\* getKubeClient, in the order of the family; k is getKubeClient's outcome
ProvisionEntry(h, ns, k) ==
    IF h = "db"
      THEN IF k # "ok" THEN ClientError(k)
           ELSE IF ns = "" THEN "ErrNamespace" ELSE "ok"
      ELSE IF ns = "" THEN "ErrNamespace"
           ELSE IF k # "ok" THEN ClientError(k)
           ELSE "ok"

\* what the hook returns when Secrets(ns).Create fails
SecretCreateFailed(h) == IF h = "db" THEN "nil" ELSE "ErrSecret"

\* is getKubeClient reached: the nginx/heketi hooks return before it when the
\* namespace is empty
ClientCalled(h, ns) == h = "db" \/ ns # ""

\* Lock, the existence check, the construction of newInstance from the
\* request (of which req.Parameters is not read), the switch and, for the
\* pod-backed type, the head of the hook
CreateServiceInstance(c) ==
    /\ c.op = "Create"
    /\ Lock(c)
    /\ \E s \in ServiceIDs, n \in Namespaces : \E p \in ParametersOf(s) :
         LET a == [c EXCEPT !.svc = s, !.ns = n, !.params = p] IN
         IF CreateExists(a.id)
           THEN /\ Becomes(c, Result(a, "AlreadyExists", NoResp))
                /\ UNCHANGED instanceMap
         ELSE IF ~Provisions(s)
           THEN CreateInsert(c, a)
         ELSE \E k \in getKubeClient :
                LET d == IF ClientCalled(hook, n) THEN Log(a, "getKubeClient", k) ELSE a
                    r == ProvisionEntry(hook, n, k) IN
                /\ instanceMap' = BeforeProvision(instanceMap, a)
                /\ Becomes(c, IF r = "ok" THEN Goto(d, "prov_secret")
                                          ELSE Result(d, r, NoResp))
    /\ UNCHANGED <<secrets, pods, hook, started, seen>>

\* sec, err = cs.CoreV1().Secrets(ns).Create(sec)
ProvisionSecret(c) ==
    /\ c.pc = "prov_secret"
    /\ \/ /\ <<c.ns, c.id>> \notin secrets
          /\ secrets' = secrets \cup {<<c.ns, c.id>>}
          /\ Becomes(c, Goto(Log(c, "Secrets.Create", "ok"), "prov_pod"))
          /\ UNCHANGED instanceMap
       \/ /\ UNCHANGED secrets
          /\ IF SecretCreateFailed(hook) = "nil"
               THEN CreateInsert(c, Log(c, "Secrets.Create", "err"))
               ELSE /\ Becomes(c, Result(Log(c, "Secrets.Create", "err"),
                                         SecretCreateFailed(hook), NoResp))
                    /\ UNCHANGED instanceMap
    /\ UNCHANGED <<pods, hook, writer, readers, started, seen>>

\* a hook that returns the error of the pod creation without the rollback
ProvisionPod_NoRollback(c) ==
    /\ c.pc = "prov_pod"
    /\ \/ /\ <<c.ns, c.id>> \notin pods
          /\ pods' = pods \cup {<<c.ns, c.id>>}
          /\ CreateInsert(c, Log(c, "Pods.Create", "ok"))
       \/ /\ UNCHANGED <<pods, instanceMap>>
          /\ Becomes(c, Result(Log(c, "Pods.Create", "err"), "ErrPod", NoResp))
    /\ UNCHANGED <<secrets, hook, writer, readers, started, seen>>

\* pod, err = cs.CoreV1().Pods(ns).Create(pod); on success the hook returns
\* and the create stores the instance
ProvisionPod(c) ==
    /\ c.pc = "prov_pod"
    /\ \/ /\ <<c.ns, c.id>> \notin pods
          /\ pods' = pods \cup {<<c.ns, c.id>>}
          /\ CreateInsert(c, Log(c, "Pods.Create", "ok"))
       \/ /\ UNCHANGED <<pods, instanceMap>>
          /\ Becomes(c, Goto(Log(c, "Pods.Create", "err"), "prov_rollback"))
    /\ UNCHANGED <<secrets, hook, writer, readers, started, seen>>

\* cs.CoreV1().Secrets(ns).Delete(sec.Name, ...); return err
ProvisionRollback(c) ==
    /\ c.pc = "prov_rollback"
    /\ \/ /\ secrets' = secrets \ {<<c.ns, c.id>>}
          /\ Becomes(c, Result(Log(c, "Secrets.Delete", "ok"), "ErrPod", NoResp))
       \/ /\ UNCHANGED secrets
          /\ Becomes(c, Result(Log(c, "Secrets.Delete", "err"), "ErrPod", NoResp))
    /\ UNCHANGED <<instanceMap, pods, hook, writer, readers, started, seen>>

----------------------------------------------------------------------------
(* RemoveServiceInstance and the deprovision hooks: doNginXDeprovision,
   doHeketiDeprovision, deprovisionDBInstance *)

\* a remove that reports success for an id it does not know
RemoveAbsent_Success(c) == Result(c, "ok", NoResp)

\* return nil, errNoSuchInstance{instanceID: id}
RemoveAbsent(c) == Result(c, "NotFound", NoResp)

\* the head of the deprovision hook: the nginx/heketi hooks check the
\* namespace, deprovisionDBInstance does not
DeprovisionEntry(h, ns, k) ==
    IF h # "db" /\ ns = "" THEN "ErrNamespace"
    ELSE IF k # "ok" THEN ClientError(k)
    ELSE "ok"

\* a remove that drops the hook's error
RemoveError_Nil(e) == "ok"

\* RemoveServiceInstance wraps the hook's error
RemoveError(e) == IF e = "panic" THEN "panic" ELSE "ErrDeprovision"

\* does the hook go on to the secrets after Pods(ns).DeleteCollection failed
ContinuesAfterPodError(h) == h # "db"

\* the hook's result once Secrets(ns).DeleteCollection returned: secFailed
\* says whether it failed, ep is errPod
DeprovisionResult(h, ep, secFailed) ==
    IF secFailed THEN (IF ep THEN "ErrPodAndSecret" ELSE "ErrSecret") ELSE "nil"

\* a remove that returns success and keeps the entry
RemoveDelete_KeepsEntry(c, d) ==
    /\ Becomes(c, Result(d, "ok", NoResp))
    /\ UNCHANGED instanceMap

\* the log line reading c.instanceMap[id].Id, delete(c.instanceMap, id) and
\* return nil, nil
RemoveDelete(c, d) ==
    IF d.id \in DOMAIN instanceMap
      THEN /\ instanceMap' = MapDelete(instanceMap, d.id)
           /\ Becomes(c, Result(d, "ok", NoResp))
      ELSE /\ Becomes(c, Result(d, "panic", NoResp))
           /\ UNCHANGED instanceMap

\* Lock, the existence check, the switch and, for the pod-backed type, the
\* head of the hook, which is passed the namespace of the stored instance
RemoveServiceInstance(c) ==
    /\ c.op = "Remove"
    /\ Lock(c)
    /\ IF c.id \notin DOMAIN instanceMap
         THEN /\ Becomes(c, RemoveAbsent(c))
              /\ UNCHANGED instanceMap
         ELSE LET inst == instanceMap[c.id]
                  a == [c EXCEPT !.svc = inst.ServiceID, !.ns = inst.Namespace] IN
              IF ~Provisions(inst.ServiceID)
                THEN RemoveDelete(c, a)
                ELSE \E k \in getKubeClient :
                       LET d == IF ClientCalled(hook, a.ns)
                                  THEN Log(a, "getKubeClient", k) ELSE a
                           r == DeprovisionEntry(hook, a.ns, k) IN
                       /\ Becomes(c, IF r = "ok" THEN Goto(d, "deprov_pod")
                                                 ELSE Result(d, RemoveError(r), NoResp))
                       /\ UNCHANGED instanceMap
    /\ UNCHANGED <<secrets, pods, hook, started, seen>>

\* cs.CoreV1().Pods(ns).DeleteCollection(..., LabelSelector: instanceId=<id>)
DeprovisionPod(c) ==
    /\ c.pc = "deprov_pod"
    /\ \/ /\ pods' = pods \ {<<c.ns, c.id>>}
          /\ Becomes(c, Goto(Log(c, "Pods.DeleteCollection", "ok"), "deprov_secret"))
       \/ /\ UNCHANGED pods
          /\ LET d == Log(c, "Pods.DeleteCollection", "err") IN
             Becomes(c, IF ContinuesAfterPodError(hook)
                          THEN Goto([d EXCEPT !.errPod = TRUE], "deprov_secret")
                          ELSE Result(d, RemoveError("ErrPod"), NoResp))
    /\ UNCHANGED <<instanceMap, secrets, hook, writer, readers, started, seen>>

\* cs.CoreV1().Secrets(ns).DeleteCollection(..., LabelSelector: instanceId=<id>);
\* when the hook returns nil the remove deletes the instance
DeprovisionSecret(c) ==
    /\ c.pc = "deprov_secret"
    /\ \E secFailed \in BOOLEAN :
         LET d == Log(c, "Secrets.DeleteCollection", IF secFailed THEN "err" ELSE "ok")
             r == DeprovisionResult(hook, c.errPod, secFailed) IN
         /\ secrets' = IF secFailed THEN secrets ELSE secrets \ {<<c.ns, c.id>>}
         /\ IF r = "nil"
              THEN RemoveDelete(c, d)
              ELSE /\ Becomes(c, Result(d, RemoveError(r), NoResp))
                   /\ UNCHANGED instanceMap
    /\ UNCHANGED <<pods, hook, writer, readers, started, seen>>

----------------------------------------------------------------------------
(* GetServiceInstance *)

GetServiceInstance(c) ==
    /\ c.op = "Get"
    /\ RLock(c)
    /\ Becomes(c, IF c.id \notin DOMAIN instanceMap
                    THEN Result(c, "NotFound", NoResp)
                    ELSE Result(c, "ok", Marshal(instanceMap[c.id])))
    /\ UNCHANGED <<instanceMap, secrets, pods, hook, started, seen>>

----------------------------------------------------------------------------
(* Bind and the bind hooks: doNXBind/getNXPodIP, doHeketiBind/getHeketiPodIP,
   getInstancePodIP *)

\* the value of the Credential field after the assignment: the new pointer
StoredCredential(old, newCredential) == newCredential

\* c.instanceMap[instanceID].Credential = newCredential and the return,
\* which dereferences newCredential
BindStore(c, d, newCredential) ==
    IF d.id \notin DOMAIN instanceMap
      THEN /\ Becomes(c, Result(d, "panic", NoResp))
           /\ UNCHANGED instanceMap
      ELSE /\ instanceMap' = [instanceMap EXCEPT ![d.id].Credential =
                                               StoredCredential(@, newCredential)]
           /\ Becomes(c, IF newCredential = NilCredential
                           THEN Result(d, "panic", NoResp)
                           ELSE Result(d, "ok", newCredential))

\* a bind that hands out the placeholder only while no credential is stored
UserProvidedCredential_Once(inst) ==
    IF inst.Credential = NilCredential
      THEN PlaceholderCredential
      ELSE "special-key-1" :> "special-value-1"

\* case serviceidUserProvided: newCredential is the fixed pair of dummy keys,
\* whatever the instance or the binding request holds
UserProvidedCredential(inst) == PlaceholderCredential

\* RLock, the lookup, the switch and, for the pod-backed type, the head of
\* the hook, which is passed the namespace of the stored instance
Bind(c) ==
    /\ c.op = "Bind"
    /\ RLock(c)
    /\ IF c.id \notin DOMAIN instanceMap
         THEN /\ Becomes(c, Result(c, "NotFound", NoResp))
              /\ UNCHANGED instanceMap
         ELSE LET inst == instanceMap[c.id]
                  a == [c EXCEPT !.svc = inst.ServiceID, !.ns = inst.Namespace] IN
              IF inst.ServiceID = serviceidUserProvided
                THEN BindStore(c, a, UserProvidedCredential(inst))
              ELSE IF inst.ServiceID # serviceidDatabasePod
                THEN BindStore(c, a, NilCredential)
              ELSE \E k \in getKubeClient :
                     /\ Becomes(c, IF k = "ok"
                                     THEN Goto(Log(a, "getKubeClient", k), "bind_list")
                                     ELSE Result(Log(a, "getKubeClient", k),
                                                 ClientError(k), NoResp))
                     /\ UNCHANGED instanceMap
    /\ UNCHANGED <<secrets, pods, hook, started, seen>>

\* the field selector of the list request: getInstancePodIP sends the id of
\* the instance, the nginx/heketi hooks send none
FieldSelector(h, id) == IF h = "db" THEN <<id>> ELSE << >>

\* a field selector is a list of terms field=value; the bare id is no such
\* term and the request that carries it is refused
ValidFieldSelector(f) == f = << >>

\* the pods Pods(ns).List returns: the pods of the namespace that carry the
\* label instanceId=<id>
ListedPods(h, ns, id) == {x \in pods : x = <<ns, id>>}

\* Pods(ns).List, the read of Items[0].Status.PodIP and the store
BindList(c) ==
    /\ c.pc = "bind_list"
    /\ \/ /\ Becomes(c, Result(Log(c, "Pods.List", "err"), "ErrList", NoResp))
          /\ UNCHANGED instanceMap
       \/ /\ ValidFieldSelector(FieldSelector(hook, c.id))
          /\ IF ListedPods(hook, c.ns, c.id) = {}
            THEN /\ Becomes(c, Result(Log(c, "Pods.List", "ok"), "panic", NoResp))
                 /\ UNCHANGED instanceMap
            ELSE \E ip \in PodIPs :
                   BindStore(c, Log(c, "Pods.List", "ok"),
                             DBCredential(ip, ContainerPort(hook)))
    /\ UNCHANGED <<secrets, pods, hook, writer, readers, started, seen>>

----------------------------------------------------------------------------
(* UnBind *)

\* an unbind that clears the credential of the instance
UnBind_ClearsCredential(c) ==
    /\ c.op = "UnBind"
    /\ RLock(c)
    /\ IF c.id \notin DOMAIN instanceMap
         THEN /\ Becomes(c, Result(c, "NotFound", NoResp))
              /\ UNCHANGED instanceMap
         ELSE /\ Becomes(c, Result(c, "ok", NoResp))
              /\ instanceMap' = [instanceMap EXCEPT ![c.id].Credential = NilCredential]
    /\ UNCHANGED <<secrets, pods, hook, started, seen>>

\* RLock, the lookup, the switch and doDBUnbind, which does nothing
UnBind(c) ==
    /\ c.op = "UnBind"
    /\ RLock(c)
    /\ Becomes(c, IF c.id \notin DOMAIN instanceMap
                    THEN Result(c, "NotFound", NoResp)
                    ELSE Result(c, "ok", NoResp))
    /\ UNCHANGED <<instanceMap, secrets, pods, hook, started, seen>>

----------------------------------------------------------------------------
CreateErrors == {"ErrNamespace", "ErrClient", "ErrSecret", "ErrPod"}

\* how the result of a create counts for the creates of the same id that
\* are outstanding when it returns
Outcome(r) ==
    IF r = "ok" THEN "succeeded"
    ELSE IF r = "AlreadyExists" THEN "rejected"
    ELSE "failed"

\* the call d once the call c has released the mutex: a create records the
\* outcomes of the creates of its id that end while it waits for the mutex,
\* and a successful remove of the id starts the record afresh
PeerAfter(d, c) ==
    IF d.op # "Create" \/ d.id # c.id THEN d
    ELSE IF c.op = "Create" THEN [d EXCEPT !.peer = @ \cup {Outcome(c.ret)}]
    ELSE IF c.op = "Remove" /\ c.ret = "ok" THEN [d EXCEPT !.peer = {}]
    ELSE d

\* the call d once the call c has released the mutex: what has become of the
\* removes of its id while d waits for the mutex
PriorAfter(d, c) ==
    IF d.id # c.id THEN d
    ELSE IF c.op = "Remove" /\ c.ret = "ok" THEN [d EXCEPT !.prior = "removed"]
    ELSE IF c.op = "Remove" /\ c.ret = "ErrDeprovision"
      THEN [d EXCEPT !.prior =
              IF \E i \in DOMAIN c.calls : c.calls[i] = <<"Pods.DeleteCollection", "ok">>
                THEN "failed_on_secret" ELSE "failed"]
    ELSE IF c.op = "Create" /\ c.ret = "ok" THEN [d EXCEPT !.prior = "none"]
    ELSE d

\* the bag B of outstanding calls once the call c has released the mutex;
\* the calls that wait for the mutex run after c
FlightAfter(B, c) ==
    LET after(d) == IF d.pc = "wait" THEN PriorAfter(PeerAfter(d, c), c) ELSE d
        image == {after(d) : d \in BagToSet(B)} IN
    [x \in image |->
       BagCardinality([d \in {e \in BagToSet(B) : after(e) = x} |-> B[d]])]

\* a deferred call that leaves the mutex locked
Unlock_KeepsLock(c) ==
    /\ c.pc = "ret"
    /\ flight' = FlightAfter(Without(c) (+) SetToBag({Goto(c, "done")}), c)
    /\ UNCHANGED <<instanceMap, secrets, pods, hook, writer, readers, started, seen>>

\* defer c.rwMutex.Unlock() / RUnlock(): the call has set its results (or
\* panics) and the deferred call releases the mutex; the call has not yet
\* returned to its caller
Unlock(c) ==
    /\ c.pc = "ret"
    /\ IF c.op \in WriteOps
         THEN writer' = writer - 1 /\ UNCHANGED readers
         ELSE readers' = readers - 1 /\ UNCHANGED writer
    /\ flight' = FlightAfter(Without(c) (+) SetToBag({Goto(c, "done")}), c)
    /\ UNCHANGED <<instanceMap, secrets, pods, hook, started, seen>>

\* the call returns to its caller (or its panic leaves the method)
Return(c) ==
    /\ c.pc = "done"
    /\ flight' = Without(c)
    /\ UNCHANGED <<instanceMap, secrets, pods, hook, writer, readers, started, seen>>

----------------------------------------------------------------------------
Next ==
    \/ Start
    \/ \E c \in Flight :
         \/ CreateServiceInstance(c)
         \/ ProvisionSecret(c)
         \/ ProvisionPod(c)
         \/ ProvisionRollback(c)
         \/ RemoveServiceInstance(c)
         \/ DeprovisionPod(c)
         \/ DeprovisionSecret(c)
         \/ GetServiceInstance(c)
         \/ Bind(c)
         \/ BindList(c)
         \/ UnBind(c)
         \/ Unlock(c)
         \/ Return(c)

Spec == Init /\ [][Next]_vars

\* the step in which a call acquires the mutex
LockStep(c) ==
    \/ CreateServiceInstance(c)
    \/ RemoveServiceInstance(c)
    \/ GetServiceInstance(c)
    \/ Bind(c)
    \/ UnBind(c)

\* the return of a request the call has sent to the provisioner
ProvisionerStep(c) ==
    \/ ProvisionSecret(c)
    \/ ProvisionPod(c)
    \/ ProvisionRollback(c)
    \/ DeprovisionPod(c)
    \/ DeprovisionSecret(c)
    \/ BindList(c)

\* the mutex is fair, every request to the provisioner returns, and a call
\* that has its result returns to its caller
Fairness ==
    /\ SF_vars(\E c \in Flight : LockStep(c))
    /\ WF_vars(\E c \in Flight : ProvisionerStep(c))
    /\ WF_vars(\E c \in Flight : Unlock(c) \/ Return(c))

SpecFair == Init /\ [][Next]_vars /\ Fairness

TypeOK ==
    /\ DOMAIN instanceMap \subseteq Ids
    /\ writer \in 0..NumProcs
    /\ readers \in 0..NumProcs
    /\ IsABag(flight)
    /\ BagCardinality(flight) <= NumProcs
    /\ started \in 0..MaxOps
    /\ seen \in 0..NumIds

----------------------------------------------------------------------------
(* The early pod-provisioning variant of the controller (controller.go).
   Its instances hold a Name and a Credential; CreateServiceInstance has no
   existence check and stores the instance before it provisions a pod named
   "debian" in the namespace "test-ns"; GetServiceInstance and UnBind take
   no lock.  It uses the same variables; hook and secrets play no part. *)

EarlyNamespace == "test-ns"
EarlyPodName == "debian"

\* json.Marshal of a credentials object: its members
JsonMarshal(m) == {<<k, m[k]>> : k \in DOMAIN m}

\* json.Unmarshal of the text of an object into a brokerapi.Credential
JsonUnmarshal(o) ==
    [k \in {p[1] : p \in o} |-> (CHOOSE p \in o : p[1] = k)[2]]

\* the instance CreateServiceInstance stores: the credentials of the request
\* through json, or the placeholder when the request has none
EarlyInstance(id, p) ==
    [Name |-> id,
     Credential |-> IF "credentials" \in DOMAIN p
                      THEN JsonUnmarshal(JsonMarshal(p["credentials"]))
                      ELSE PlaceholderCredential]

InitEarly ==
    /\ instanceMap = << >>
    /\ secrets = {}
    /\ pods = {}
    /\ hook = "none"
    /\ writer = 0
    /\ readers = 0
    /\ flight = EmptyBag
    /\ started = 0
    /\ seen = 0

\* Lock, the store of the instance, and getKubeClient
EarlyCreateServiceInstance(c) ==
    /\ c.op = "Create"
    /\ Lock(c)
    /\ \E p \in Parameters, k \in getKubeClient :
         LET a == Log([c EXCEPT !.params = p, !.ns = EarlyNamespace],
                      "getKubeClient", k) IN
         /\ instanceMap' = MapInsert(instanceMap, c.id, EarlyInstance(c.id, p))
         /\ Becomes(c, IF k = "ok" THEN Goto(a, "early_pod")
                                   ELSE Result(a, ClientError(k), NoResp))
    /\ UNCHANGED <<secrets, pods, hook, started, seen>>

\* pod, err = cs.CoreV1().Pods(ns).Create(pod): the error is logged and the
\* create returns an empty response either way
EarlyProvisionPod(c) ==
    /\ c.pc = "early_pod"
    /\ \/ /\ <<EarlyNamespace, EarlyPodName>> \notin pods
          /\ pods' = pods \cup {<<EarlyNamespace, EarlyPodName>>}
          /\ Becomes(c, Result(Log(c, "Pods.Create", "ok"), "ok", << >>))
       \/ /\ UNCHANGED pods
          /\ Becomes(c, Result(Log(c, "Pods.Create", "err"), "ok", << >>))
    /\ UNCHANGED <<instanceMap, secrets, hook, writer, readers, started, seen>>

\* Lock, delete when the id is there, an empty response either way
EarlyRemoveServiceInstance(c) ==
    /\ c.op = "Remove"
    /\ Lock(c)
    /\ instanceMap' = IF c.id \in DOMAIN instanceMap
                        THEN MapDelete(instanceMap, c.id) ELSE instanceMap
    /\ Becomes(c, Result(c, "ok", << >>))
    /\ UNCHANGED <<secrets, pods, hook, started, seen>>

\* return "", errors.New("Unimplemented"), without the lock
EarlyGetServiceInstance(c) ==
    /\ c.op = "Get"
    /\ c.pc = "wait"
    /\ Becomes(c, Result(c, "Unimplemented", NoResp))
    /\ UNCHANGED <<instanceMap, secrets, pods, hook, writer, readers, started, seen>>

\* RLock, the lookup, and the stored credential as the response
EarlyBind(c) ==
    /\ c.op = "Bind"
    /\ RLock(c)
    /\ Becomes(c, IF c.id \notin DOMAIN instanceMap
                    THEN Result(c, "NotFound", NoResp)
                    ELSE Result(c, "ok", instanceMap[c.id].Credential))
    /\ UNCHANGED <<instanceMap, secrets, pods, hook, started, seen>>

\* return nil, without the lock
EarlyUnBind(c) ==
    /\ c.op = "UnBind"
    /\ c.pc = "wait"
    /\ Becomes(c, Result(c, "ok", NoResp))
    /\ UNCHANGED <<instanceMap, secrets, pods, hook, writer, readers, started, seen>>

\* the methods of the early variant that take the mutex
EarlyLockOps == {"Create", "Remove", "Bind"}

\* defer c.rwMutex.Unlock() / RUnlock() of the methods that take the mutex:
\* the mutex is released before the call returns to its caller
EarlyUnlock(c) ==
    /\ c.pc = "ret"
    /\ c.op \in EarlyLockOps
    /\ IF c.op \in WriteOps
         THEN writer' = writer - 1 /\ UNCHANGED readers
         ELSE readers' = readers - 1 /\ UNCHANGED writer
    /\ Becomes(c, Goto(c, "done"))
    /\ UNCHANGED <<instanceMap, secrets, pods, hook, started, seen>>

\* the call returns to its caller
EarlyReturn(c) ==
    /\ \/ c.pc = "done"
       \/ c.pc = "ret" /\ c.op \notin EarlyLockOps
    /\ flight' = Without(c)
    /\ UNCHANGED <<instanceMap, secrets, pods, hook, writer, readers, started, seen>>

NextEarly ==
    \/ Start
    \/ \E c \in Flight :
         \/ EarlyCreateServiceInstance(c)
         \/ EarlyProvisionPod(c)
         \/ EarlyRemoveServiceInstance(c)
         \/ EarlyGetServiceInstance(c)
         \/ EarlyBind(c)
         \/ EarlyUnBind(c)
         \/ EarlyUnlock(c)
         \/ EarlyReturn(c)

SpecEarly == InitEarly /\ [][NextEarly]_vars

----------------------------------------------------------------------------
(* Vocabulary of the properties *)

Returned(c, o) == c.pc = "ret" /\ c.op = o

\* the call c takes a step of its method, before the deferred release of the
\* mutex, in which it becomes d
Steps(c, d) == d # c /\ c.pc # "ret" /\ Becomes(c, d)

\* the call c returns to its caller
Returns(c) ==
    /\ c.pc = "done"
    /\ BagCardinality(flight') < BagCardinality(flight)
    /\ CopiesIn(c, flight') < CopiesIn(c, flight)

\* the call does not hold the mutex: it waits for it, or it has released it
\* and has only to return to its caller
Outside(c) == c.pc \in {"wait", "done"}

\* the call has its result
Finished(c) == c.pc \in {"ret", "done"}

\* the calls in flight next to c
Others(c) == BagToSet(Without(c))

\* the requests of one kind the call has sent
Sent(c, req) == {i \in DOMAIN c.calls : c.calls[i][1] = req}

\* the requests the call has sent to the Kubernetes API
ApiRequests(c) == {i \in DOMAIN c.calls : c.calls[i][1] # "getKubeClient"}

Failed(c, req) == \E i \in Sent(c, req) : c.calls[i][2] = "err"

UserbrokerHooks == {"nginx", "heketi"}

\* a create that is past its existence check and has not returned from the hook
ProvisioningPcs == {"prov_secret", "prov_pod", "prov_rollback"}

----------------------------------------------------------------------------
(* C1: a create of an id that is already in the registry returns the
   already-exists error, whatever the request holds, sends nothing to the
   provisioner and leaves the registry (and with it every field of the
   original entry) and the cluster as they were, up to its return. *)
Thm_C1_DuplicateCreateRejected ==
    [][\A c \in Flight :
         /\ (c.op = "Create" /\ c.pc = "wait" /\ c.id \in DOMAIN instanceMap)
              => \A d \in BagToSet(flight') :
                    Steps(c, d) => /\ d.pc = "ret" /\ d.ret = "AlreadyExists"
                                   /\ d.calls = << >>
                                   /\ instanceMap' = instanceMap
                                   /\ cluster' = cluster
         /\ (Returned(c, "Create") /\ c.ret = "AlreadyExists")
              => /\ instanceMap' = instanceMap
                 /\ cluster' = cluster
                 /\ c.calls = << >>
                 /\ c.id \in DOMAIN instanceMap]_vars

Wit_C1_DuplicateCreateRejected ==
    \E c \in Flight :
       /\ Returned(c, "Create") /\ c.ret = "AlreadyExists"
       /\ instanceMap[c.id].ServiceID # c.svc

(* C2: atomic create with the nginx and heketi provision hooks.  When a step
   of the provisioning of a database-pod create fails (namespace check,
   client construction in either of its two ways, secret creation, pod
   creation) the create returns an error and the registry has no entry for
   the id; while the provisioning is under way there is no entry either; and
   a create that returns success has seen every step succeed, so an entry
   appears only after all of them. *)
StepFailed(c) ==
    \/ c.ns = ""
    \/ \E i \in Sent(c, "getKubeClient") : c.calls[i][2] # "ok"
    \/ Failed(c, "Secrets.Create")
    \/ Failed(c, "Pods.Create")

AllStepsSucceeded(c) ==
    /\ c.ns # ""
    /\ c.calls = << <<"getKubeClient", "ok">>, <<"Secrets.Create", "ok">>,
                    <<"Pods.Create", "ok">> >>

Cex_C2_AtomicCreate ==
    \A c \in Flight :
       (hook \in UserbrokerHooks /\ c.op = "Create"
          /\ c.svc = serviceidDatabasePod) =>
         /\ (c.pc \in ProvisioningPcs) => c.id \notin DOMAIN instanceMap
         /\ (c.pc = "ret" /\ c.ret # "AlreadyExists") =>
              /\ StepFailed(c) => /\ c.ret \in CreateErrors
                                  /\ c.id \notin DOMAIN instanceMap
              /\ (c.id \in DOMAIN instanceMap \/ c.ret = "ok") =>
                     /\ c.ret = "ok"
                     /\ AllStepsSucceeded(c)
                     /\ c.id \in DOMAIN instanceMap

(* C3: delete ordering with the nginx and heketi deprovision hooks.  When
   the deletion of the pod or the deletion of the secret fails during a
   remove of a pod-backed instance, the remove returns an error and the entry
   is still in the registry. *)
Cex_C3_DeleteOrdering ==
    \A c \in Flight :
       (hook \in UserbrokerHooks /\ Returned(c, "Remove")
          /\ (Failed(c, "Pods.DeleteCollection") \/ Failed(c, "Secrets.DeleteCollection")))
         => /\ c.ret = "ErrDeprovision"
            /\ c.id \in DOMAIN instanceMap

(* C4: every write to the registry or to a stored instance (the insert of a
   create, the delete of a remove, the credential store of a bind) is made
   by a call that holds the lock exclusively: after the step that writes, a
   writer holds the mutex and no reader does. *)
Cex_C4_ExclusiveWrites ==
    [][instanceMap' # instanceMap => (writer' = 1 /\ readers' = 0)]_vars

(* C5: read isolation.  A create that is past its existence check and has
   not finished has no entry in the registry, so no Get can see one; an entry
   enters the registry only in the last step of a create, which holds the
   lock exclusively and whose provisioning has finished successfully (every
   step of it succeeded), fully populated from the request; and a Get
   returns NotFound or the identity fields of
   such an entry, while no create of that id holds the lock: each is still
   waiting for it or has finished and released it. *)
InsertedBy(c, d, id) ==
    /\ Steps(c, d)
    /\ c.op = "Create" /\ c.id = id
    /\ writer' = 1 /\ readers' = 0
    /\ instanceMap'[id] = NewInstance(d)
    /\ d.pc = "ret" /\ d.ret = "ok"
    /\ (d.svc = serviceidDatabasePod) => AllStepsSucceeded(d)

GetIsolated(c) ==
    Returned(c, "Get") =>
      \/ c.ret = "NotFound" /\ c.resp = NoResp
      \/ /\ c.ret = "ok"
         /\ c.id \in DOMAIN instanceMap
         /\ c.resp.id = c.id
         /\ c.resp.serviceid = instanceMap[c.id].ServiceID
         /\ c.resp.serviceid \in ServiceIDs
         /\ c.resp.namespace = instanceMap[c.id].Namespace
         /\ c.resp.namespace \in Namespaces
         /\ \A e \in Flight : (e.op = "Create" /\ e.id = c.id) => Outside(e)

NothingPartial ==
    /\ \A c \in Flight : (c.op = "Create" /\ c.pc \in ProvisioningPcs)
                            => c.id \notin DOMAIN instanceMap
    /\ \A c \in Flight : GetIsolated(c)

Cex_C5_ReadIsolation ==
    [][/\ \A id \in (DOMAIN instanceMap') \ (DOMAIN instanceMap) :
            \E c \in Flight, d \in BagToSet(flight') : InsertedBy(c, d, id)
       /\ NothingPartial']_vars

(* C6 as stated: of the creates of one id that overlap, at most one returns
   success and every other returns the already-exists error: a create that
   succeeds has seen no other create of its id succeed or fail while it was
   outstanding, and one that has seen another succeed is rejected. *)
Cex_C6_ConcurrentCreates ==
    \A c \in Flight :
       Returned(c, "Create") =>
          /\ (c.ret = "ok") => c.peer \subseteq {"rejected"}
          /\ ("succeeded" \in c.peer) => c.ret = "AlreadyExists"

(* C6 as amended: of the creates of one id that overlap, at most one returns
   success; a create that returns after the success of another returns the
   already-exists error without a request to the provisioner; a create that
   returned before it returned the error of its own failed provisioning, or
   ended in the panic of the client construction.  The
   existence check and the insert are one atomic step: while a create is
   between them the id is absent and no other create of the id holds the
   lock. *)
Thm_C6_ConcurrentCreates ==
    \A c \in Flight :
       /\ (c.op = "Create" /\ c.pc \in ProvisioningPcs) =>
             /\ c.id \notin DOMAIN instanceMap
             /\ \A e \in Others(c) :
                   (e.op = "Create" /\ e.id = c.id) => Outside(e)
       /\ (c.op = "Create" /\ Finished(c)) =>
             /\ (c.ret = "ok") => c.peer \subseteq {"failed"}
             /\ ("succeeded" \in c.peer) => (c.ret = "AlreadyExists" /\ c.calls = << >>)
             /\ c.ret \in {"ok", "AlreadyExists", "panic"} \cup CreateErrors

Wit_C6_ConcurrentCreates ==
    \E c \in Flight :
       /\ Returned(c, "Create") /\ c.ret = "ok"
       /\ c.peer = {"failed"}

(* C7: rollback in every provision hook.  When the secret was created and
   the creation of the pod failed, the hook, before it returns, asks for the
   deletion of the secret it created, and then returns the error of the pod
   creation; the create fails with that error. *)
PodFailedAfterSecret(c) ==
    /\ \E i \in Sent(c, "Secrets.Create") : c.calls[i][2] = "ok"
    /\ Failed(c, "Pods.Create")

Thm_C7_RollbackOnPodFailure ==
    [][\A c \in Flight :
         /\ (c.op = "Create" /\ PodFailedAfterSecret(c))
              => \/ c.pc = "prov_rollback" /\ Sent(c, "Secrets.Delete") = {}
                 \/ /\ Finished(c) /\ c.ret = "ErrPod"
                    /\ Len(c.calls) = 4
                    /\ c.calls[3] = <<"Pods.Create", "err">>
                    /\ c.calls[4][1] = "Secrets.Delete"
         /\ (c.pc = "prov_rollback")
              => \A d \in BagToSet(flight') :
                    Steps(c, d) =>
                      /\ <<c.ns, c.id>> \in secrets
                      /\ \/ /\ d.calls = Append(c.calls, <<"Secrets.Delete", "ok">>)
                            /\ secrets' = secrets \ {<<c.ns, c.id>>}
                         \/ /\ d.calls = Append(c.calls, <<"Secrets.Delete", "err">>)
                            /\ secrets' = secrets
                      /\ d.pc = "ret" /\ d.ret = "ErrPod"
                      /\ c.id \notin DOMAIN instanceMap']_vars

Wit_C7_RollbackOnPodFailure ==
    \E c \in Flight :
       /\ hook = "db"
       /\ Returned(c, "Create") /\ PodFailedAfterSecret(c)
       /\ c.calls[4] = <<"Secrets.Delete", "ok">>
       /\ <<c.ns, c.id>> \notin secrets

(* C8: a create of the pod-backed service type with an empty namespace
   returns an error, adds no entry to the registry and sends neither a secret
   creation nor a pod creation (nor any other request) to the provisioner. *)
Cex_C8_EmptyNamespace ==
    [][\A c \in Flight :
         /\ (c.op = "Create" /\ c.pc = "wait")
              => \A d \in BagToSet(flight') :
                    (Steps(c, d) /\ d.svc = serviceidDatabasePod /\ d.ns = "") =>
                      /\ d.pc = "ret"
                      /\ d.ret \in {"AlreadyExists", "ErrNamespace", "ErrClient"}
                      /\ (hook \in UserbrokerHooks)
                            => d.ret \in {"AlreadyExists", "ErrNamespace"}
                      /\ ApiRequests(d) = {}
                      /\ instanceMap' = instanceMap
                      /\ cluster' = cluster
         /\ (c.op = "Create" /\ c.svc = serviceidDatabasePod /\ c.ns = ""
               /\ c.pc # "wait")
              => /\ Finished(c)
                 /\ ApiRequests(c) = {}
                 /\ (c.pc = "ret") =>
                       /\ (c.ret # "AlreadyExists") => c.id \notin DOMAIN instanceMap
                       /\ instanceMap' = instanceMap
                       /\ cluster' = cluster]_vars

(* C9: Get, Bind, UnBind and Remove of an id that is not in the registry
   return the no-such-instance error, send nothing to the provisioner and
   leave the registry and the cluster as they were. *)
LookupOps == {"Get", "Bind", "UnBind", "Remove"}

Thm_C9_UnknownId ==
    [][\A c \in Flight :
         /\ (c.op \in LookupOps /\ c.pc = "wait" /\ c.id \notin DOMAIN instanceMap)
              => \A d \in BagToSet(flight') :
                    Steps(c, d) => /\ d = Result(c, "NotFound", NoResp)
                                   /\ d.calls = << >>
                                   /\ instanceMap' = instanceMap
                                   /\ cluster' = cluster
         /\ (Finished(c) /\ c.ret = "NotFound")
              => /\ c.op \in LookupOps
                 /\ c.calls = << >>
                 /\ Returns(c) => (instanceMap' = instanceMap /\ cluster' = cluster)]_vars

Wit_C9_UnknownId ==
    \E c, e \in Flight :
       /\ Returned(c, "Bind") /\ c.ret = "NotFound"
       /\ Returned(e, "UnBind") /\ e.ret = "NotFound"
       /\ c.id \notin DOMAIN instanceMap

(* C10: the credential of a user-provided instance is set once, at
   creation, and never changes: a successful create with no parameters
   stores the placeholder credential, which a Get then returns, and no step
   of a Bind, an UnBind or a Get changes the credential of a user-provided
   instance that is in the registry. *)
Cex_C10_CredentialSetAtCreation ==
    [][/\ \A c \in Flight, d \in BagToSet(flight') :
            (Steps(c, d) /\ c.op = "Create" /\ d.ret = "ok"
               /\ d.svc = serviceidUserProvided /\ d.params = NoParameters)
              => instanceMap'[d.id].Credential = PlaceholderCredential
       /\ \A id \in (DOMAIN instanceMap) \cap (DOMAIN instanceMap') :
            (instanceMap[id].ServiceID = serviceidUserProvided)
              => instanceMap'[id].Credential = instanceMap[id].Credential]_vars

(* C11: Bind on a user-provided instance returns the credential captured
   when the instance was created, unchanged: the successful create of a
   user-provided instance stores the credential derived from the request's
   parameters when they hold credentials and the placeholder otherwise, and
   a Bind on the instance returns success with exactly the stored credential
   and leaves the registry as it is. *)
CapturedCredential(p) ==
    IF "credentials" \in DOMAIN p THEN p["credentials"] ELSE PlaceholderCredential

Cex_C11_BindReturnsCaptured ==
    [][\A c \in Flight, d \in BagToSet(flight') :
         /\ (Steps(c, d) /\ c.op = "Create" /\ d.ret = "ok"
               /\ d.svc = serviceidUserProvided)
              => instanceMap'[d.id].Credential = CapturedCredential(d.params)
         /\ (Steps(c, d) /\ c.op = "Bind" /\ c.id \in DOMAIN instanceMap
               /\ instanceMap[c.id].ServiceID = serviceidUserProvided)
              => /\ d.pc = "ret" /\ d.ret = "ok"
                 /\ d.resp = instanceMap[c.id].Credential
                 /\ instanceMap' = instanceMap]_vars

(* C12: Bind determinism for the user-provided type.  Every Bind on a
   user-provided instance that returns success returns the same credential
   map, whatever the binding, the instance, the stored credential and the
   calls before it: two Binds on one instance return identical maps. *)
Thm_C12_BindDeterminism ==
    \A c, e \in Flight :
       (c.op = "Bind" /\ Finished(c) /\ c.ret = "ok" /\ c.svc = serviceidUserProvided
          /\ e.op = "Bind" /\ Finished(e) /\ e.ret = "ok" /\ e.svc = serviceidUserProvided)
         => /\ c.resp = e.resp
            /\ c.resp = PlaceholderCredential

Wit_C12_BindDeterminism ==
    \E c \in Flight :
       /\ Returned(c, "Bind") /\ c.ret = "ok" /\ c.svc = serviceidUserProvided
       /\ CopiesIn(c, flight) = 2
       /\ instanceMap[c.id].Credential = c.resp

(* C13: the stored credential of a database-pod instance.  It is unset when
   the create stores the instance; it changes only in the step in which a
   Bind on the instance succeeds, and then to exactly the credential that
   Bind returns (the address and port of that Bind, nothing kept of the old
   value); a Bind whose address query fails (the client construction or the
   listing of the pods) returns an error and leaves the registry as it was.
   So in every state it is unset or the credential of the latest successful
   Bind. *)
DBCredentials == {DBCredential(ip, ContainerPort(hook)) : ip \in PodIPs}

Cex_C13_DatabaseCredential ==
    [][/\ \A id \in DOMAIN instanceMap' :
            (instanceMap'[id].ServiceID = serviceidDatabasePod) =>
               IF id \notin DOMAIN instanceMap
                 THEN instanceMap'[id].Credential = NilCredential
               ELSE \/ instanceMap'[id] = instanceMap[id]
                    \/ \E c \in Flight, d \in BagToSet(flight') :
                         /\ Steps(c, d)
                         /\ c.op = "Bind" /\ c.id = id
                         /\ d.pc = "ret" /\ d.ret = "ok"
                         /\ d.resp \in DBCredentials
                         /\ instanceMap'[id] =
                               [instanceMap[id] EXCEPT !.Credential = d.resp]
       /\ \A c \in Flight, d \in BagToSet(flight') :
            (Steps(c, d) /\ c.op = "Bind" /\ d.svc = serviceidDatabasePod
               /\ d.pc = "ret" /\ d.ret = "ok")
              => instanceMap'[d.id].Credential = d.resp
       /\ \A c \in Flight, d \in BagToSet(flight') :
            (Steps(c, d) /\ c.op = "Bind" /\ d.svc = serviceidDatabasePod
               /\ d.pc = "ret" /\ d.ret # "ok")
              => /\ instanceMap' = instanceMap
                 /\ d.resp = NoResp
                 /\ (Failed(d, "Pods.List")
                       \/ \E i \in Sent(d, "getKubeClient") : d.calls[i][2] # "ok")
                       => d.ret \in {"ErrList", "ErrClient"}
       /\ \A id \in DOMAIN instanceMap' :
            (instanceMap'[id].ServiceID = serviceidDatabasePod) =>
               instanceMap'[id].Credential \in {NilCredential} \cup DBCredentials]_vars

(* C14: a Bind on a pod-backed instance whose workload is not available (the
   listing of the instance's pods returns no pod, or the pod it returns has
   no address yet) returns an error to the caller: it neither panics nor
   succeeds, and it stores no credential. *)
Cex_C14_WorkloadUnavailable ==
    [][\A c \in Flight, d \in BagToSet(flight') :
         (/\ Steps(c, d)
          /\ c.op = "Bind" /\ c.pc = "bind_list"
          /\ ~Failed(d, "Pods.List")
          /\ \/ ListedPods(hook, c.ns, c.id) = {}
             \/ d.ret = "ok" /\ d.resp["mongoInstanceIp"] = "")
           => /\ d.pc = "ret" /\ d.ret \notin {"ok", "panic"}
              /\ instanceMap' = instanceMap]_vars

(* C15: an UnBind of an id that is in the registry returns success, for
   every service type, sends nothing to the provisioner and leaves the
   registry and the cluster as they were: the entry stays and its stored
   credential is neither cleared nor altered. *)
Thm_C15_UnBindFrame ==
    [][\A c \in Flight, d \in BagToSet(flight') :
         (Steps(c, d) /\ c.op = "UnBind") =>
            /\ c.pc = "wait" /\ d.pc = "ret"
            /\ d.ret = IF c.id \in DOMAIN instanceMap THEN "ok" ELSE "NotFound"
            /\ d.resp = NoResp /\ d.calls = << >>
            /\ instanceMap' = instanceMap
            /\ cluster' = cluster]_vars

Wit_C15_UnBindFrame ==
    \E c \in Flight :
       /\ Returned(c, "UnBind") /\ c.ret = "ok"
       /\ instanceMap[c.id].ServiceID = serviceidDatabasePod
       /\ instanceMap[c.id].Credential \in DBCredentials

(* C16: after a remove of an id that returned success the id is not in the
   registry until a create of it succeeds: a Remove that returns success has
   deleted the entry; a call that takes the lock after the remove released
   it, with no create of the id having succeeded since, finds the id absent, so a Get, Bind, UnBind or Remove returns NotFound and
   a Create is not rejected as a duplicate (and succeeds for the
   user-provided type, inserting the entry again). *)
Thm_C16_RemovedUntilCreated ==
    \A c \in Flight :
       /\ (Returned(c, "Remove") /\ c.ret = "ok") => c.id \notin DOMAIN instanceMap
       /\ (c.prior = "removed") =>
            /\ (c.pc = "wait" /\ writer = 0) => c.id \notin DOMAIN instanceMap
            /\ (c.op \in LookupOps /\ c.pc # "wait") =>
                  /\ Finished(c) /\ c.ret = "NotFound"
                  /\ (c.pc = "ret") => c.id \notin DOMAIN instanceMap
            /\ (c.op = "Create" /\ c.pc # "wait") =>
                  /\ c.ret # "AlreadyExists"
                  /\ (c.svc # serviceidDatabasePod) => c.ret = "ok"
                  /\ (c.pc # "done") => (c.id \in DOMAIN instanceMap <=> c.ret = "ok")

Wit_C16_RemovedUntilCreated ==
    \E c \in Flight :
       /\ Returned(c, "Create") /\ c.prior = "removed"
       /\ c.svc = serviceidDatabasePod /\ c.ret = "ok"
       /\ c.id \in DOMAIN instanceMap

(* C17: while a create or a remove is inside a request of its provision or
   deprovision hook it holds the lock exclusively and every other call in
   flight is waiting for the lock, or had released it before and has only to
   return to its caller; as long as that request has not returned (the call
   has not moved) no waiting call moves: none reads or writes the registry
   or takes the lock, and the registry, the cluster and the mutex stay as
   they are.  Only new requests can arrive, and they wait too.  A request
   that never returns therefore blocks every waiting call forever. *)
DeprovisioningPcs == {"deprov_pod", "deprov_secret"}

InProvisioner(c) ==
    /\ c.op \in WriteOps
    /\ c.pc \in ProvisioningPcs \cup DeprovisioningPcs

Thm_C17_SerializedByProvisioning ==
    [][\A c \in Flight :
         InProvisioner(c) =>
            /\ writer = 1 /\ readers = 0
            /\ \A e \in Others(c) : Outside(e)
            /\ (CopiesIn(c, flight') >= 1) =>
                  /\ instanceMap' = instanceMap
                  /\ cluster' = cluster
                  /\ rwMutex' = rwMutex
                  /\ \A e \in Others(c) :
                        (e.pc = "wait") => CopiesIn(e, flight') >= CopiesIn(e, flight)
                  /\ \A e \in Others(c) :
                        (e.pc = "done") => CopiesIn(e, flight') <= CopiesIn(e, flight)
                  /\ \A e \in BagToSet(flight') : e # c => Outside(e)]_vars

Wit_C17_SerializedByProvisioning ==
    \E c \in Flight :
       /\ c.op = "Remove" /\ c.pc = "deprov_secret"
       /\ \E e \in Others(c) : e.op = "Get" /\ e.id # c.id /\ e.pc = "wait"

(* C18: failure of the delete at the level of the controller.  Whenever the
   deprovision hook called by a remove returns an error (the client
   construction failed, the deletion of the secrets failed, or, in
   deprovisionDBInstance, the deletion of the pods failed) the remove
   returns an error, and no step of a remove that does not return success
   changes the registry: the entry is present with the fields it had. *)
HookError(h, c) ==
    \/ h \in UserbrokerHooks /\ c.ns = ""
    \/ Failed(c, "getKubeClient")
    \/ Failed(c, "Secrets.DeleteCollection")
    \/ h = "db" /\ Failed(c, "Pods.DeleteCollection")

Thm_C18_RemoveFailureKeepsEntry ==
    [][\A c \in Flight, d \in BagToSet(flight') :
         (Steps(c, d) /\ c.op = "Remove") =>
            /\ (d.pc = "ret" /\ d.svc = serviceidDatabasePod /\ HookError(hook, d))
                  => d.ret = "ErrDeprovision"
            /\ (d.pc # "ret" \/ d.ret # "ok") => instanceMap' = instanceMap
            /\ (d.pc = "ret" /\ d.ret = "ErrDeprovision") =>
                  /\ HookError(hook, d)
                  /\ d.id \in DOMAIN instanceMap'
                  /\ instanceMap'[d.id].ServiceID = d.svc
                  /\ instanceMap'[d.id].Namespace = d.ns]_vars

Wit_C18_RemoveFailureKeepsEntry ==
    \E c \in Flight :
       /\ Returned(c, "Remove") /\ c.ret = "ErrDeprovision"
       /\ hook = "db" /\ Failed(c, "Pods.DeleteCollection")
       /\ c.id \in DOMAIN instanceMap
       /\ <<c.ns, c.id>> \in pods

(* C19: provisionDBInstance returns an error whenever it has not created
   both the secret and the pod: a database-pod create through it in which a
   step failed, the creation of the secret in particular, returns an error
   and stores no instance. *)
Cex_C19_SecretFailureReported ==
    \A c \in Flight :
       (hook = "db" /\ Returned(c, "Create") /\ c.svc = serviceidDatabasePod
          /\ c.ret # "AlreadyExists" /\ ~AllStepsSucceeded(c))
         => /\ c.ret \in CreateErrors
            /\ c.id \notin DOMAIN instanceMap

(* C20: a retry after a failed teardown converges.  A remove that was
   outstanding when a remove of its id returned an error (also one that had
   deleted the pods and failed on the secrets) finds the entry still there;
   when its own requests to the provisioner succeed, the deletion of pods
   that are already gone included, it returns success, the entry is removed
   and neither the pod nor the secret of the instance is left. *)
AfterFailedRemove(c) == c.prior \in {"failed", "failed_on_secret"}

DeletesSucceeded(c) ==
    c.calls = << <<"getKubeClient", "ok">>, <<"Pods.DeleteCollection", "ok">>,
                 <<"Secrets.DeleteCollection", "ok">> >>

Thm_C20_RetryConverges ==
    \A c \in Flight :
       (c.op = "Remove" /\ AfterFailedRemove(c)) =>
          /\ (c.pc = "wait" /\ writer = 0) =>
                /\ c.id \in DOMAIN instanceMap
                /\ instanceMap[c.id].ServiceID = serviceidDatabasePod
          /\ (c.pc # "wait") => /\ c.svc = serviceidDatabasePod
                                /\ c.ret # "NotFound"
          /\ (c.pc = "ret" /\ DeletesSucceeded(c)) =>
                /\ c.ret = "ok"
                /\ c.id \notin DOMAIN instanceMap
                /\ <<c.ns, c.id>> \notin pods
                /\ <<c.ns, c.id>> \notin secrets
          /\ (c.pc = "ret" /\ c.ret = "ok" /\ hook = "db") => DeletesSucceeded(c)

Wit_C20_RetryConverges ==
    \E c \in Flight :
       /\ Returned(c, "Remove") /\ c.prior = "failed_on_secret"
       /\ hook = "db"
       /\ DeletesSucceeded(c) /\ c.ret = "ok"
       /\ c.id \notin DOMAIN instanceMap

(* C21: no call crashes on an instance of an unrecognised service type: a
   create with any ServiceID stores the instance and returns success, and a
   Bind, UnBind, Get or Remove on such an instance returns a response or an
   error, never a panic on the unset credential. *)
Cex_C21_UnrecognisedServiceType ==
    \A c \in Flight :
       (c.pc = "ret" /\ c.svc = serviceidOther) =>
          /\ c.ret # "panic"
          /\ (c.op = "Create" /\ c.ret # "AlreadyExists") =>
                (c.ret = "ok" /\ c.id \in DOMAIN instanceMap)

(* C22: in the early variant (SpecEarly) a create changes the registry only
   by adding an entry for an id that was absent, and only when it returns
   success: a create of an id that is present leaves the registry as it is
   (the entry and its credential are not replaced), a create that returns an
   error leaves the registry as it is, and no create touches the entry of
   another id. *)
Cex_C22_EarlyCreateOnlyAdds ==
    [][\A c \in Flight, d \in BagToSet(flight') :
         (Steps(c, d) /\ c.op = "Create") =>
            /\ (c.id \in DOMAIN instanceMap) => instanceMap' = instanceMap
            /\ (d.pc = "ret" /\ d.ret # "ok") => instanceMap' = instanceMap
            /\ \A i \in DOMAIN instanceMap :
                  i \in DOMAIN instanceMap' /\ instanceMap'[i] = instanceMap[i]]_vars

(* C23: the identity fields of a stored instance are immutable.  The Id of
   every entry is its key in the map; as long as an entry is in the
   registry its Id, ServiceID and Namespace stay what they were when it was
   inserted; the only change any step makes to an existing entry is to its
   Credential, and the step that makes it is a step of a Bind on that id. *)
Thm_C23_IdentityImmutable ==
    [][/\ \A id \in DOMAIN instanceMap' :
            /\ instanceMap'[id].Id = id
            /\ instanceMap'[id].ServiceID \in ServiceIDs
            /\ instanceMap'[id].Namespace \in Namespaces
       /\ \A id \in (DOMAIN instanceMap) \cap (DOMAIN instanceMap') :
            /\ instanceMap'[id].Id = instanceMap[id].Id
            /\ instanceMap'[id].ServiceID = instanceMap[id].ServiceID
            /\ instanceMap'[id].Namespace = instanceMap[id].Namespace
            /\ (instanceMap'[id] # instanceMap[id]) =>
                  /\ instanceMap'[id] =
                        [instanceMap[id] EXCEPT !.Credential = instanceMap'[id].Credential]
                  /\ \E c \in Flight, d \in BagToSet(flight') :
                        Steps(c, d) /\ c.op = "Bind" /\ c.id = id]_vars

Wit_C23_IdentityImmutable ==
    \E c \in Flight :
       /\ Returned(c, "Bind") /\ c.ret = "ok"
       /\ instanceMap[c.id].Credential = c.resp
       /\ instanceMap[c.id].Id = c.id
       /\ instanceMap[c.id].ServiceID = serviceidDatabasePod
       /\ instanceMap[c.id].Namespace = "ns1"
       /\ \E i \in DOMAIN instanceMap : i # c.id

(* C24: the calls on user-provided instances make no external call.  The
   step of a Create of the user-provided type, and the step of a Bind, an
   UnBind or a Remove on a user-provided instance, is the whole call: it
   sends no request (no client construction, no creation, deletion or
   listing of secrets or pods), leaves the cluster as it is, and returns;
   the Remove of a user-provided instance that exists returns success and
   deletes the entry. *)
OnUserProvided(c, d) ==
    /\ Steps(c, d)
    /\ \/ c.op = "Create" /\ d.svc = serviceidUserProvided
       \/ /\ c.op \in {"Bind", "UnBind", "Remove"}
          /\ c.id \in DOMAIN instanceMap
          /\ instanceMap[c.id].ServiceID = serviceidUserProvided

Thm_C24_UserProvidedNoExternalCall ==
    [][\A c \in Flight, d \in BagToSet(flight') :
         OnUserProvided(c, d) =>
            /\ c.pc = "wait" /\ d.pc = "ret"
            /\ d.calls = << >>
            /\ cluster' = cluster
            /\ d.ret \in {"ok", "AlreadyExists"}
            /\ (c.op = "Remove") => /\ d.ret = "ok"
                                    /\ instanceMap' = MapDelete(instanceMap, c.id)
                                    /\ c.id \notin DOMAIN instanceMap']_vars

Wit_C24_UserProvidedNoExternalCall ==
    \E c \in Flight :
       /\ Returned(c, "Remove") /\ c.svc = serviceidUserProvided
       /\ c.ret = "ok" /\ c.calls = << >>
       /\ c.id \notin DOMAIN instanceMap
       /\ pods # {}

(* C25: no orphaned backing resources.  In every state in which no call is
   in progress, a pod or a secret labelled with an instance id exists in the
   cluster only if the registry has an entry for that id. *)
Cex_C25_NoOrphans ==
    (flight = EmptyBag) =>
       \A x \in pods \cup secrets : x[2] \in DOMAIN instanceMap

(* C26: release of the lock and termination.  The mutex is held exactly by
   the calls that have taken it and have not returned, whatever their result
   (success, NotFound, already-exists, an error of the provisioning, a
   panic), so it is free whenever no call is outstanding and some call can
   always move; and when the mutex is fair and every request to the
   provisioner returns (SpecFair), every call that was started returns: from
   any state with calls outstanding, a state is reached in which all of them
   have returned. *)
Holders(ops) ==
    BagCardinality([c \in {e \in Flight : e.op \in ops /\ e.pc \notin {"wait", "done"}}
                       |-> flight[c]])

LockAccounting ==
    /\ writer = Holders(WriteOps)
    /\ readers = Holders(ReadOps)
    /\ writer \in {0, 1}
    /\ (writer = 1) => readers = 0
    /\ (flight # EmptyBag) =>
          \E c \in Flight : \/ c.pc # "wait"
                            \/ writer = 0 /\ (c.op \in ReadOps \/ readers = 0)

Thm_C26_LockReleaseAndTermination ==
    /\ []LockAccounting
    /\ (flight # EmptyBag) ~> (flight = EmptyBag)

Wit_C26_LockReleaseAndTermination ==
    /\ flight = EmptyBag
    /\ started = MaxOps
    /\ writer = 0 /\ readers = 0
    /\ secrets # {} /\ pods = {} /\ instanceMap = << >>

(* C27: the frame of an operation is its own id.  No step of a
   GetServiceInstance changes the registry; a step of a Create, Remove, Bind
   or UnBind on an id, whatever its result, leaves every entry under another
   id as it was: present with the same fields, or absent. *)
Thm_C27_PerIdFrame ==
    [][\A c \in Flight, d \in BagToSet(flight') :
         Steps(c, d) =>
            /\ (c.op = "Get") => instanceMap' = instanceMap
            /\ \A i \in Ids \ {c.id} :
                  /\ (i \in DOMAIN instanceMap) <=> (i \in DOMAIN instanceMap')
                  /\ (i \in DOMAIN instanceMap) => instanceMap'[i] = instanceMap[i]]_vars

Wit_C27_PerIdFrame ==
    \E c \in Flight :
       /\ Returned(c, "Remove") /\ c.ret = "ok"
       /\ c.id \notin DOMAIN instanceMap
       /\ \E i \in DOMAIN instanceMap :
             i # c.id /\ instanceMap[i].ServiceID = serviceidDatabasePod

(* C28: a Bind and a Remove of the same id never overlap.  At no time are a
   Bind and a Remove of one id both between taking the mutex and returning.
   A Bind that takes the mutex after a Remove of its id returned success
   while it was waiting, with no create of the id having succeeded since,
   returns NotFound; after a Remove that failed it finds the entry.  A step
   of a Bind that stores a credential or returns one acts on an entry that
   is in the registry before and after the step, while no Remove of the id is
   in its teardown and none has finished since the Bind was started. *)
InCriticalSection(c) == c.pc \notin {"wait", "done"}

BindRemoveExclusive ==
    \A c \in Flight, e \in Flight :
       (c.op = "Bind" /\ e.op = "Remove" /\ c.id = e.id) =>
          ~(InCriticalSection(c) /\ InCriticalSection(e))

Thm_C28_BindRemoveNoOverlap ==
    /\ []BindRemoveExclusive
    /\ [][\A c \in Flight, d \in BagToSet(flight') :
            (Steps(c, d) /\ c.op = "Bind") =>
               /\ (c.pc = "wait" /\ d.pc # "wait" /\ c.prior = "removed") =>
                     /\ d.pc = "ret" /\ d.ret = "NotFound" /\ d.resp = NoResp
                     /\ instanceMap' = instanceMap
               /\ (c.pc = "wait" /\ d.pc # "wait"
                     /\ c.prior \in {"failed", "failed_on_secret"}) =>
                     /\ c.id \in DOMAIN instanceMap
                     /\ d.ret # "NotFound"
               /\ (instanceMap' # instanceMap \/ d.resp # NoResp) =>
                     /\ c.id \in DOMAIN instanceMap
                     /\ c.id \in DOMAIN instanceMap'
                     /\ c.prior # "removed"
                     /\ \A e \in Others(c) :
                           (e.op = "Remove" /\ e.id = c.id) => Outside(e)]_vars

Wit_C28_BindRemoveNoOverlap ==
    \E c \in Flight :
       /\ Returned(c, "Bind") /\ c.ret = "NotFound"
       /\ c.prior = "removed"
       /\ c.id \notin DOMAIN instanceMap

====
